---- MODULE Spec2Model ----
(***************************************************************************)
(* A model of the vidyaChaitianyaSamakya site's state machines:            *)
(*   - the offline caching service worker (sw.js): install, activate and   *)
(*     the cache-first fetch handler with its detached runtime-cache put;  *)
(*   - the photo gallery (assets/js/gallery.js): manifest loading,         *)
(*     rendering by category, the lazy reveal of the item nodes and the    *)
(*     lightbox controller;                                                *)
(*   - the mobile menu (assets/js/common.js), which shares the scroll lock *)
(*     of the page with the lightbox;                                      *)
(*   - the error handler (assets/js/error-handler.js).                     *)
(* SWSpec runs the worker, GallerySpec the gallery page, LoaderSpec the    *)
(* image loader, PageSpec the gallery page with its mobile menu, ErrorSpec *)
(* the error handler and CoreSpec the worker next to a page that loads its *)
(* manifest; each leaves the other components' variables untouched.        *)
(***************************************************************************)
EXTENDS Integers, Sequences, FiniteSets, TLC

VARIABLES
    \* ---- service worker (sw.js) ----
    swState,        \* lifecycle of the worker: parsed, installing, installed, activating, activated
    installPc,      \* the promise given to install's waitUntil: idle, opening, adding, settled
    activatePc,     \* the promise given to activate's waitUntil: idle, keys, deleting, settled
    claimPc,        \* self.clients.claim(): none, requested, claimed
    pendingDeletes, \* caches.delete(name) calls issued and not yet settled
    keysAtActivate, \* the cache names that existed when the running activate event fired
    cacheKeys,      \* CacheStorage: the existing cache names, in creation order
    cacheData,      \* CacheStorage: per cache name, request URL -> stored response
    swLog,          \* what the worker wrote with console.error, as a set of entries
    handlers,       \* one record per fetch-event handler instance in flight
    \* ---- gallery page (assets/js/gallery.js) ----
    allImages,      \* GalleryManager.allImages
    manifestFetches, \* calls of fetch(CONFIG.dataUrl) made so far
    initPc,         \* position of GalleryManager.init(): idle, loading, rendered, rejected
    loadError,      \* the error init() caught, or NoError
    container,      \* what #galleryContainer shows
    items,          \* the .gallery-item nodes in DOM order, each its data-index
    sections,       \* the category sections in DOM order: category, title and count
    currentIndex,   \* LightboxController.currentIndex
    isOpen,         \* LightboxController.isOpen
    overlayActive,  \* #lightbox carries the class 'active'
    bodyOverflow,   \* document.body.style.overflow
    shown,          \* the image record the lightbox image element displays
    focusTimers,    \* pending setTimeout callbacks of open()
    closeFocused,   \* the close control has keyboard focus
    trail,          \* the run of lightbox operations applied last to the loaded list
    \* ---- image loader (assets/js/gallery.js, ImageLoader) ----
    observed,       \* the number of nodes handed to observe(), -1 before the call
    revealTimers,   \* pending reveal timers: node index -> its delay in ms
    watched,        \* the node indexes registered with the IntersectionObserver
    reveals,        \* per node index, how often classList.add('loaded') ran for it
    \* ---- mobile menu (assets/js/common.js) ----
    menuActive,     \* #mobileMenu carries the class 'active'
    menuTimers,     \* pending setTimeout(closeMobileMenu, 200) callbacks
    \* ---- error handler (assets/js/error-handler.js) ----
    errorCount,     \* ErrorHandler.errorCount
    errorHistory,   \* ErrorHandler.errorHistory: the serial numbers of the stored entries
    logSerial,      \* log entries written since the last clearErrorHistory()
    handled,        \* per handleError call since the last clear: what it did
    warned          \* suppression warnings written since the last clear

swVars == <<swState, installPc, activatePc, claimPc, pendingDeletes, keysAtActivate,
            cacheKeys, cacheData, swLog, handlers>>
galleryVars == <<allImages, manifestFetches, initPc, loadError, container, items, sections, currentIndex, isOpen,
                 overlayActive, bodyOverflow, shown, focusTimers, closeFocused, trail>>
loaderVars == <<observed, revealTimers, watched, reveals>>
menuVars == <<menuActive, menuTimers>>
errorVars == <<errorCount, errorHistory, logSerial, handled, warned>>
\* everything but the worker
pageVars == <<galleryVars, loaderVars, menuVars, errorVars>>
vars == <<swVars, galleryVars, loaderVars, menuVars, errorVars>>

(***************************************************************************)
(* Bounds of the model.                                                    *)
(***************************************************************************)
\* distinct bodies the network may serve for one URL
MaxBody == 2
\* stale cache generations that may exist before activation
MaxStale == 2
\* handleError calls between two calls of clearErrorHistory
MaxHandled == 12
\* log entries written between two calls of clearErrorHistory
MaxLogs == 52
\* longest list of nodes handed to the image loader
MaxNodes == 14
\* longest manifest image list
MaxImages == 3
\* focus timers of open() that may be pending together
MaxTimers == 2

(***************************************************************************)
(* URLs.  A URL is the sequence of its lexical parts, so that the prefix   *)
(* test of String.startsWith and the origin of the URL are different       *)
(* things: <<"https://", "vcs.example", ".evil.test", "/img.png">> is the  *)
(* string "https://vcs.example.evil.test/img.png".                         *)
(***************************************************************************)
SelfOrigin == <<"https://", "vcs.example">>
LookalikeOrigin == <<"https://", "vcs.example", ".evil.test">>
CdnOrigin == <<"https://", "cdn.test">>

Resolve(path) == SelfOrigin \o <<path>>

\* the origin of a URL: everything before its path (the last part)
OriginOf(url) == SubSeq(url, 1, Len(url) - 1)

StartsWith(s, prefix) ==
    /\ Len(prefix) <= Len(s)
    /\ SubSeq(s, 1, Len(prefix)) = prefix

CACHE_NAME == "vcs-v1"
RUNTIME_CACHE == "vcs-runtime-v1"

PRECACHE_ASSETS ==
    << "/", "/index.html", "/assets/css/critical.css", "/assets/css/styles.css",
       "/assets/css/tailwind.css", "/assets/js/common.js", "/assets/js/security.js",
       "/assets/images/vcs-logo.svg" >>

PrecacheUrls == { Resolve(PRECACHE_ASSETS[i]) : i \in 1..Len(PRECACHE_ASSETS) }

\* names of earlier cache generations (none of them is named in sw.js)
StalePool == <<"vcs-v0", "vcs-runtime-v0", "vcs-static", "vcs-pages">>
StaleNames == { StalePool[k] : k \in 1..MaxStale }
AllCacheNames == {CACHE_NAME, RUNTIME_CACHE} \cup StaleNames

Range(s) == { s[i] : i \in 1..Len(s) }

(***************************************************************************)
(* Responses.                                                              *)
(***************************************************************************)
NoResponse == [status |-> -1, type |-> "none", redirected |-> FALSE, body |-> -1, url |-> <<>>]

Response(url, status, type, redirected, body) ==
    [status |-> status, type |-> type, redirected |-> redirected, body |-> body, url |-> url]

\* What the network can answer to a request for url.  A same-origin request gets a
\* 'basic' response (possibly after a same-origin redirect); a no-cors request to
\* another origin gets an opaque one.
NetworkResponses(url) ==
    IF OriginOf(url) = SelfOrigin
    THEN { Response(url, 200, "basic", r, b) : r \in BOOLEAN, b \in 1..MaxBody }
         \cup { Response(url, st, "basic", FALSE, 0) : st \in {204, 404} }
    ELSE { Response(url, 0, "opaque", FALSE, 0) }

EmptyCache == [u \in {} |-> NoResponse]

\* a put that leaves an entry that is already there
CachePutIfAbsent(cache, url, resp) ==
    [u \in (DOMAIN cache) \cup {url} |-> IF u \in DOMAIN cache THEN cache[u] ELSE resp]

CachePut(cache, url, resp) ==
    [u \in (DOMAIN cache) \cup {url} |-> IF u = url THEN resp ELSE cache[u]]

\* CacheStorage.match: the first cache, in creation order, holding the URL
RECURSIVE MatchFrom(_, _, _, _)
MatchFrom(keys, data, url, i) ==
    IF i > Len(keys) THEN NoResponse
    ELSE IF url \in DOMAIN data[keys[i]] THEN data[keys[i]][url]
    ELSE MatchFrom(keys, data, url, i + 1)

CachesMatch(url) == MatchFrom(cacheKeys, cacheData, url, 1)

\* caches.open(name): creates the cache when it does not exist
KeysAfterOpen(name) == IF name \in Range(cacheKeys) THEN cacheKeys ELSE Append(cacheKeys, name)

RECURSIVE Without(_, _)
Without(s, x) ==
    IF s = <<>> THEN <<>>
    ELSE IF Head(s) = x THEN Without(Tail(s), x)
    ELSE <<Head(s)>> \o Without(Tail(s), x)

(***************************************************************************)
(* Service worker: state.                                                  *)
(***************************************************************************)
IndexUrl == Resolve("/index.html")
ImageUrl == Resolve("/assets/x.png")
LookalikeUrl == LookalikeOrigin \o <<"/img.png">>
CdnUrl == CdnOrigin \o <<"/aos.js">>

Request(method, url, mode) == [method |-> method, url |-> url, mode |-> mode]
NoRequest == Request("", <<>>, "")

\* The fetch events the worker can be handed: navigations of pages in its scope and
\* the subresource requests of the pages it controls, to any origin.
Requests ==
    { Request(m, u, "navigate") : m \in {"GET", "POST"}, u \in {IndexUrl, ImageUrl} }
    \cup { Request(m, u, "no-cors") : m \in {"GET", "POST"}, u \in {ImageUrl, LookalikeUrl, CdnUrl} }

\* What fetch(event.request) can resolve with.  A navigation request has redirect
\* mode 'manual': a redirect is not followed and comes back as an 'opaqueredirect'
\* response; any other request follows redirects.
NetworkResponsesFor(req) ==
    IF req.mode = "navigate"
    THEN { r \in NetworkResponses(req.url) : ~ r.redirected }
         \cup { Response(req.url, 0, "opaqueredirect", FALSE, 0) }
    ELSE NetworkResponses(req.url)

Idle ==
    [pc |-> "idle", req |-> NoRequest, lookup |-> "none", fetched |-> FALSE,
     fetches |-> 0, netFailed |-> FALSE, from |-> "none", result |-> NoResponse,
     putPc |-> "none", toCache |-> NoResponse]

\* The handler instances that can be in flight together: one handler and a second
\* one running concurrently with it.
Slots == {1, 2}

\* a handler whose response path and detached put have both ended
Finished(h) ==
    /\ h.pc \in {"passthrough", "responded", "neterror"}
    /\ h.putPc \notin {"opening", "putting"}

Free(s) == handlers[s].pc = "idle"

\* A finished handler has no further effect; its record is dropped before the worker
\* takes its next step.
NoneFinished == \A s \in Slots : ~ Finished(handlers[s])

\* cache generations left behind by earlier versions of the worker, and the content
\* an earlier run of this version left in the current ones
PriorContent(name) ==
    IF name = CACHE_NAME
    THEN [u \in PrecacheUrls |-> Response(u, 200, "basic", FALSE, 0)]
    ELSE IF name = RUNTIME_CACHE
    THEN [u \in {ImageUrl} |-> Response(u, 200, "basic", FALSE, 0)]
    ELSE [u \in {IndexUrl} |-> Response(u, 200, "basic", FALSE, 0)]

NameOrder == SubSeq(StalePool, 1, MaxStale) \o <<CACHE_NAME, RUNTIME_CACHE>>

RECURSIVE Restrict(_, _)
Restrict(s, keep) ==
    IF s = <<>> THEN <<>>
    ELSE IF Head(s) \in keep THEN <<Head(s)>> \o Restrict(Tail(s), keep)
    ELSE Restrict(Tail(s), keep)

\* An Error: its message and, for the error of a response that is not ok, the
\* status that loadData writes into the message.
NoError == [message |-> "none", status |-> 0]

\* no lightbox operation applied yet
NoTrail == [op |-> "none", count |-> 0, start |-> 0, afterOpen |-> FALSE]

GalleryAtRest ==
    /\ allImages = <<>>
    /\ manifestFetches = 0
    /\ initPc = "idle"
    /\ loadError = NoError
    /\ container = "loading"
    /\ items = <<>>
    /\ sections = <<>>
    /\ currentIndex = 0
    /\ isOpen = FALSE
    /\ overlayActive = FALSE
    /\ bodyOverflow = ""
    /\ shown = 0
    /\ focusTimers = 0
    /\ closeFocused = FALSE
    /\ trail = NoTrail

\* new ImageLoader(): an observer that watches nothing, and no timer
LoaderAtRest ==
    /\ observed = -1
    /\ revealTimers = << >>
    /\ watched = {}
    /\ reveals = << >>

\* the page's markup: the mobile menu is closed
MenuAtRest ==
    /\ menuActive = FALSE
    /\ menuTimers = 0

\* new ErrorHandler()
ErrorHandlerAtRest ==
    /\ errorCount = 0
    /\ errorHistory = << >>
    /\ logSerial = 0
    /\ handled = << >>
    /\ warned = 0

\* the page before any of its scripts' handlers ran
PageAtRest == GalleryAtRest /\ LoaderAtRest /\ MenuAtRest /\ ErrorHandlerAtRest

WorkerAtRest ==
    /\ swState = "parsed"
    /\ installPc = "idle"
    /\ activatePc = "idle"
    /\ claimPc = "none"
    /\ pendingDeletes = {}
    /\ keysAtActivate = {}
    /\ swLog = {}
    /\ handlers = [s \in Slots |-> Idle]

SWInit ==
    /\ WorkerAtRest
    /\ \E existing \in SUBSET AllCacheNames :
        /\ cacheKeys = Restrict(NameOrder, existing)
        /\ cacheData = [n \in AllCacheNames |->
                           IF n \in existing THEN PriorContent(n) ELSE EmptyCache]
    /\ PageAtRest

(***************************************************************************)
(* Service worker: the install event (sw.js 22-34).                        *)
(***************************************************************************)
\* a catch handler that swallows the failure
LogNothing(log) == log

\* the console.error of the install promise's catch handler
LogCacheFailed(log) == log \cup {<<"Service Worker: Cache failed">>}

\* a promise chain without a catch handler: a rejection stays a rejection
Uncaught(outcome) == outcome

\* .catch((error) => console.error(...)): the handler returns normally, so the
\* promise handed to waitUntil is fulfilled whatever the chain before it did
Caught(outcome) == IF outcome = "rejected" THEN "settled" ELSE outcome

\* install listener: waitUntil(caches.open(..)...) and skipWaiting()
InstallEvent ==
    /\ swState = "parsed"
    /\ swState' = "installing"
    /\ installPc' = "opening"
    /\ UNCHANGED <<activatePc, claimPc, pendingDeletes, keysAtActivate, cacheKeys,
                   cacheData, swLog, handlers>>
    /\ UNCHANGED pageVars

\* caches.open(CACHE_NAME) settles: the then callback logs and calls addAll, or the
\* catch handler logs the failure and the promise given to waitUntil is fulfilled
PrecacheOpened(ok) ==
    /\ installPc = "opening"
    /\ IF ok
       THEN /\ cacheKeys' = KeysAfterOpen(CACHE_NAME)
            /\ installPc' = "adding"
            /\ UNCHANGED swLog
       ELSE /\ swLog' = LogCacheFailed(swLog)
            /\ installPc' = Caught("rejected")
            /\ UNCHANGED cacheKeys
    /\ UNCHANGED <<swState, activatePc, claimPc, pendingDeletes, keysAtActivate,
                   cacheData, handlers>>
    /\ UNCHANGED pageVars

\* an addAll that stores every response that arrived and skips the others
AddAllBestEffort(cache, urls, failed, body) ==
    [u \in (DOMAIN cache) \cup (urls \ failed) |->
        IF u \in urls THEN Response(u, 200, "basic", FALSE, body) ELSE cache[u]]

\* What cache.addAll(urls) leaves in the cache: it fetches every URL and stores the
\* responses only when every one of them arrived with an ok status.
AddAll(cache, urls, failed, body) ==
    IF failed = {}
    THEN [u \in (DOMAIN cache) \cup urls |->
             IF u \in urls THEN Response(u, 200, "basic", FALSE, body) ELSE cache[u]]
    ELSE cache

\* cache.addAll(PRECACHE_ASSETS) settles; failed are the assets whose fetch failed
AddAllSettled(failed, body) ==
    /\ installPc = "adding"
    /\ cacheData' = [cacheData EXCEPT
                        ![CACHE_NAME] = AddAll(@, PrecacheUrls, failed, body)]
    /\ swLog' = IF failed = {} THEN swLog ELSE LogCacheFailed(swLog)
    /\ installPc' = Caught(IF failed = {} THEN "settled" ELSE "rejected")
    /\ UNCHANGED <<swState, activatePc, claimPc, pendingDeletes, keysAtActivate,
                   cacheKeys, handlers>>
    /\ UNCHANGED pageVars

\* the promise given to waitUntil has settled: the worker is installed when it was
\* fulfilled, and discarded when it was rejected
Installed ==
    /\ swState = "installing"
    /\ installPc \in {"settled", "rejected"}
    /\ swState' = IF installPc = "settled" THEN "installed" ELSE "redundant"
    /\ UNCHANGED <<installPc, activatePc, claimPc, pendingDeletes, keysAtActivate,
                   cacheKeys, cacheData, swLog, handlers>>
    /\ UNCHANGED pageVars

(***************************************************************************)
(* Service worker: the activate event (sw.js 37-51).                       *)
(***************************************************************************)
\* a cleanup that keeps only the precache
ShouldDeleteAllButPrecache(cacheName) == cacheName # CACHE_NAME

\* the condition under which the activate handler deletes a cache
ShouldDelete(cacheName) == cacheName # CACHE_NAME /\ cacheName # RUNTIME_CACHE

\* activate listener: waitUntil(caches.keys()...) and, in the same turn,
\* return self.clients.claim().  skipWaiting() lets it follow install at once.
ActivateEvent ==
    /\ swState = "installed"
    /\ swState' = "activating"
    /\ activatePc' = "keys"
    /\ claimPc' = "requested"
    /\ keysAtActivate' = Range(cacheKeys)
    /\ UNCHANGED <<installPc, pendingDeletes, cacheKeys, cacheData, swLog, handlers>>
    /\ UNCHANGED pageVars

\* caches.keys() resolves: cacheNames.map issues caches.delete for every stale name
KeysResolved ==
    /\ activatePc = "keys"
    /\ pendingDeletes' = { n \in Range(cacheKeys) : ShouldDelete(n) }
    /\ activatePc' = "deleting"
    /\ UNCHANGED <<swState, installPc, claimPc, keysAtActivate, cacheKeys, cacheData,
                   swLog, handlers>>
    /\ UNCHANGED pageVars

\* one caches.delete(name) settles; the deletes settle in any order
DeleteSettled(name) ==
    /\ name \in pendingDeletes
    /\ pendingDeletes' = pendingDeletes \ {name}
    /\ cacheKeys' = Without(cacheKeys, name)
    /\ cacheData' = [cacheData EXCEPT ![name] = EmptyCache]
    /\ UNCHANGED <<swState, installPc, activatePc, claimPc, keysAtActivate, swLog,
                   handlers>>
    /\ UNCHANGED pageVars

\* Promise.all settles: the promise given to waitUntil is fulfilled
ActivateSettled ==
    /\ activatePc = "deleting"
    /\ pendingDeletes = {}
    /\ activatePc' = "settled"
    /\ UNCHANGED <<swState, installPc, claimPc, pendingDeletes, keysAtActivate,
                   cacheKeys, cacheData, swLog, handlers>>
    /\ UNCHANGED pageVars

\* the activate event is over: the worker becomes activated and fetch events are
\* dispatched to it
Activated ==
    /\ swState = "activating"
    /\ activatePc = "settled"
    /\ swState' = "activated"
    /\ keysAtActivate' = {}
    /\ UNCHANGED <<installPc, activatePc, claimPc, pendingDeletes,
                   cacheKeys, cacheData, swLog, handlers>>
    /\ UNCHANGED pageVars

\* clients.claim() takes effect
ClaimSettled ==
    /\ claimPc = "requested"
    /\ claimPc' = "claimed"
    /\ UNCHANGED <<swState, installPc, activatePc, pendingDeletes, keysAtActivate,
                   cacheKeys, cacheData, swLog, handlers>>
    /\ UNCHANGED pageVars

(***************************************************************************)
(* Service worker: the fetch event (sw.js 54-100).                         *)
(***************************************************************************)
\* the two guards before respondWith
ShouldIntercept(req) ==
    /\ req.method = "GET"
    /\ StartsWith(req.url, SelfOrigin)

\* a test that lets every response through to the cache
CacheableAlways(resp) == resp # NoResponse

\* the negation of the test that returns the network response without caching it
Cacheable(resp) ==
    ~ (resp = NoResponse \/ resp.status # 200 \/ resp.type # "basic")

\* fetch listener, up to respondWith(caches.match(event.request)...)
OnFetchEvent(req) ==
    IF ShouldIntercept(req)
    THEN [Idle EXCEPT !.pc = "matching", !.req = req, !.lookup = "pending"]
    ELSE [Idle EXCEPT !.pc = "passthrough", !.req = req]

\* a handler that goes to the network whatever the lookup found
OnMatchNetworkFirst(h, m) ==
    [h EXCEPT !.pc = "fetching", !.lookup = "miss", !.fetched = TRUE,
                   !.fetches = @ + 1]

\* the then callback of caches.match(event.request), m being what it resolved with
OnMatch(h, m) ==
    IF m # NoResponse
    THEN [h EXCEPT !.pc = "responded", !.lookup = "hit", !.from = "cache", !.result = m]
    ELSE [h EXCEPT !.pc = "fetching", !.lookup = "miss", !.fetched = TRUE,
                   !.fetches = @ + 1]

\* a handler that returns the network response and never stores it
OnNetworkResponseNoStore(h, resp) ==
    [h EXCEPT !.pc = "responded", !.from = "network", !.result = resp]

\* a handler that answers only once the response is stored
OnNetworkResponseAwaitsPut(h, resp) ==
    IF ~ Cacheable(resp)
    THEN [h EXCEPT !.pc = "responded", !.from = "network", !.result = resp]
    ELSE [h EXCEPT !.pc = "storing", !.toCache = resp, !.putPc = "opening"]

\* the then callback of fetch(event.request)
OnNetworkResponse(h, resp) ==
    IF ~ Cacheable(resp)
    THEN [h EXCEPT !.pc = "responded", !.from = "network", !.result = resp]
    ELSE [h EXCEPT !.pc = "responded", !.from = "network", !.result = resp,
                   !.toCache = resp, !.putPc = "opening"]

\* a catch callback without the navigation fallback
OnNetworkFailureNoFallback(h) ==
    [h EXCEPT !.pc = "neterror", !.netFailed = TRUE]

\* a catch callback that falls back to the root document for every request
OnNetworkFailureAlwaysFallback(h) ==
    [h EXCEPT !.pc = "fallback", !.netFailed = TRUE]

\* a catch callback that fetches the request once more before it gives up
OnNetworkFailureRetries(h) ==
    IF h.fetches < 2
    THEN [h EXCEPT !.pc = "fetching", !.fetches = @ + 1]
    ELSE [h EXCEPT !.pc = "neterror", !.netFailed = TRUE]

\* the catch callback of fetch(event.request): for a navigation the lookup of
\* '/index.html' starts, otherwise respondWith is resolved with undefined
OnNetworkFailure(h) ==
    IF h.req.mode = "navigate"
    THEN [h EXCEPT !.pc = "fallback", !.netFailed = TRUE]
    ELSE [h EXCEPT !.pc = "neterror", !.netFailed = TRUE]

\* caches.match('/index.html') resolved with m: a response answers the navigation,
\* undefined makes respondWith fail
OnFallback(h, m) ==
    IF m # NoResponse
    THEN [h EXCEPT !.pc = "responded", !.from = "fallback", !.result = m]
    ELSE [h EXCEPT !.pc = "neterror"]

\* the lowest slot that holds no running handler
FirstFree(s) == Free(s) /\ \A t \in Slots : t < s => ~ Free(t)

\* a fetch event of a page the worker has claimed
FetchEvent(s, req) ==
    /\ NoneFinished
    /\ swState = "activated"
    /\ claimPc = "claimed"
    /\ FirstFree(s)
    /\ handlers' = [handlers EXCEPT ![s] = OnFetchEvent(req)]
    /\ UNCHANGED <<swState, installPc, activatePc, claimPc, pendingDeletes,
                   keysAtActivate, cacheKeys, cacheData, swLog>>
    /\ UNCHANGED pageVars

MatchSettled(s) ==
    /\ NoneFinished
    /\ handlers[s].pc = "matching"
    /\ handlers' = [handlers EXCEPT ![s] = OnMatch(@, CachesMatch(@.req.url))]
    /\ UNCHANGED <<swState, installPc, activatePc, claimPc, pendingDeletes,
                   keysAtActivate, cacheKeys, cacheData, swLog>>
    /\ UNCHANGED pageVars

NetworkResponded(s, resp) ==
    /\ NoneFinished
    /\ handlers[s].pc = "fetching"
    /\ resp \in NetworkResponsesFor(handlers[s].req)
    /\ handlers' = [handlers EXCEPT ![s] = OnNetworkResponse(@, resp)]
    /\ UNCHANGED <<swState, installPc, activatePc, claimPc, pendingDeletes,
                   keysAtActivate, cacheKeys, cacheData, swLog>>
    /\ UNCHANGED pageVars

NetworkFailed(s) ==
    /\ NoneFinished
    /\ handlers[s].pc = "fetching"
    /\ handlers' = [handlers EXCEPT ![s] = OnNetworkFailure(@)]
    /\ UNCHANGED <<swState, installPc, activatePc, claimPc, pendingDeletes,
                   keysAtActivate, cacheKeys, cacheData, swLog>>
    /\ UNCHANGED pageVars

FallbackSettled(s) ==
    /\ NoneFinished
    /\ handlers[s].pc = "fallback"
    /\ handlers' = [handlers EXCEPT ![s] = OnFallback(@, CachesMatch(Resolve("/index.html")))]
    /\ UNCHANGED <<swState, installPc, activatePc, claimPc, pendingDeletes,
                   keysAtActivate, cacheKeys, cacheData, swLog>>
    /\ UNCHANGED pageVars

\* the detached caches.open(RUNTIME_CACHE) settles: its then callback calls
\* cache.put; a rejection has no handler
RuntimeOpened(s, ok) ==
    /\ NoneFinished
    /\ handlers[s].putPc = "opening"
    /\ IF ok
       THEN /\ cacheKeys' = KeysAfterOpen(RUNTIME_CACHE)
            /\ handlers' = [handlers EXCEPT ![s].putPc = "putting"]
       ELSE /\ handlers' = [handlers EXCEPT ![s].putPc = "failed"]
            /\ UNCHANGED cacheKeys
    /\ UNCHANGED <<swState, installPc, activatePc, claimPc, pendingDeletes,
                   keysAtActivate, cacheData, swLog>>
    /\ UNCHANGED pageVars

\* cache.put(event.request, responseToCache) settles; its promise is dropped
PutSettled(s, ok) ==
    /\ NoneFinished
    /\ handlers[s].putPc = "putting"
    /\ IF ok
       THEN /\ cacheData' = [cacheData EXCEPT ![RUNTIME_CACHE] =
                                CachePut(@, handlers[s].req.url, handlers[s].toCache)]
            /\ handlers' = [handlers EXCEPT ![s].putPc = "done"]
       ELSE /\ handlers' = [handlers EXCEPT ![s].putPc = "failed"]
            /\ UNCHANGED cacheData
    /\ UNCHANGED <<swState, installPc, activatePc, claimPc, pendingDeletes,
                   keysAtActivate, cacheKeys, swLog>>
    /\ UNCHANGED pageVars

\* the record of a finished handler is dropped
Retire(s) ==
    /\ Finished(handlers[s])
    /\ handlers' = [handlers EXCEPT ![s] = Idle]
    /\ UNCHANGED <<swState, installPc, activatePc, claimPc, pendingDeletes,
                   keysAtActivate, cacheKeys, cacheData, swLog>>
    /\ UNCHANGED pageVars

SWNext ==
    \/ InstallEvent
    \/ \E ok \in BOOLEAN : PrecacheOpened(ok)
    \/ \E failed \in SUBSET PrecacheUrls, body \in 1..MaxBody : AddAllSettled(failed, body)
    \/ Installed
    \/ ActivateEvent
    \/ KeysResolved
    \/ \E name \in AllCacheNames : DeleteSettled(name)
    \/ ActivateSettled
    \/ Activated
    \/ ClaimSettled
    \/ \E s \in Slots, req \in Requests : FetchEvent(s, req)
    \/ \E s \in Slots : MatchSettled(s)
    \/ \E s \in Slots, resp \in UNION { NetworkResponsesFor(r) : r \in Requests } :
          NetworkResponded(s, resp)
    \/ \E s \in Slots : NetworkFailed(s)
    \/ \E s \in Slots : FallbackSettled(s)
    \/ \E s \in Slots, ok \in BOOLEAN : RuntimeOpened(s, ok)
    \/ \E s \in Slots, ok \in BOOLEAN : PutSettled(s, ok)
    \/ \E s \in Slots : Retire(s)

SWSpec == SWInit /\ [][SWNext]_vars

(***************************************************************************)
(* Gallery: manifest loading and rendering (gallery.js 286-477).           *)
(***************************************************************************)
\* Strings are sequences of characters, so that the title-casing of a key and the
\* order of String.localeCompare are computed and not assumed.
LowerCase == <<"a", "b", "c", "e", "h", "m", "n", "o", "r", "s", "t", "u">>
UpperCase == <<"A", "B", "C", "E", "H", "M", "N", "O", "R", "S", "T", "U">>

\* the place of ch in the sequence s, 0 when it is not there
IndexIn(ch, s) == IF \E i \in 1..Len(s) : s[i] = ch THEN CHOOSE i \in 1..Len(s) : s[i] = ch ELSE 0

IsLower(ch) == IndexIn(ch, LowerCase) > 0
IsUpper(ch) == IndexIn(ch, UpperCase) > 0

\* String.toUpperCase of one character
ToUpperCase(ch) == IF IsLower(ch) THEN UpperCase[IndexIn(ch, LowerCase)] ELSE ch

\* the class \w of the regular expression /\b\w/g
IsWordChar(ch) == IsLower(ch) \/ IsUpper(ch) \/ ch = "_"

\* the category keys of the modelled manifests; <<>> is a record without a category
KeyNmms == <<"n", "m", "m", "s">>
KeyMembers == <<"m", "e", "m", "b", "e", "r", "s">>
KeySpaced == <<"a", " ", "b">>
KeyUnderscored == <<"a", "_", "a">>
KeyOther == <<"o", "t", "h", "e", "r">>
KeyConstructor == <<"c", "o", "n", "s", "t", "r", "u", "c", "t", "o", "r">>
Categories == {<<>>, KeyNmms, KeyMembers, KeySpaced, KeyUnderscored, KeyConstructor}

\* The property names that the object literal {} of the grouping inherits from
\* Object.prototype, among the modelled keys: imagesByCategory[key] is a function
\* for them before any record was grouped.
InheritedKeys == {KeyConstructor}

\* the entries of CATEGORY_LABELS for the modelled keys
CATEGORY_LABELS ==
    [k \in {KeyNmms, KeyMembers} |->
        IF k = KeyNmms THEN <<"N", "M", "M", "S">>
        ELSE <<"M", "e", "m", "b", "e", "r", "s">>]

\* an ImageRecord: its path (here the record's place in the manifest) and category
Image(path, category) == [path |-> path, category |-> category]

\* a null in the manifest's images array
NullRecord == [path |-> 0, category |-> <<>>]

IsNull(image) == image = NullRecord

\* what the i-th place of the images array can hold
RecordsAt(i) == { Image(i, c) : c \in Categories } \cup {NullRecord}

\* the image lists a manifest can hold, the empty one included
Manifests ==
    UNION { { images \in [1..n -> UNION { RecordsAt(i) : i \in 1..n }] :
                \A i \in 1..n : images[i] \in RecordsAt(i) } : n \in 0..MaxImages }

\* image.category || 'other'
CategoryOf(image) == IF image.category = <<>> THEN KeyOther ELSE image.category

\* CATEGORY_LABELS[a] || a: the label the comparator of the sort compares
SortLabel(category) ==
    IF category \in DOMAIN CATEGORY_LABELS THEN CATEGORY_LABELS[category] ELSE category

\* category.replace(/_/g, ' ').replace(/\b\w/g, l => l.toUpperCase())
TitleCase(key) ==
    LET spaced == [i \in 1..Len(key) |-> IF key[i] = "_" THEN " " ELSE key[i]]
    IN  [i \in 1..Len(key) |->
            IF IsWordChar(spaced[i]) /\ (i = 1 \/ ~ IsWordChar(spaced[i - 1]))
            THEN ToUpperCase(spaced[i])
            ELSE spaced[i]]

\* CATEGORY_LABELS[category] || (the title-cased key): the label a section shows
DisplayLabel(category) ==
    IF category \in DOMAIN CATEGORY_LABELS THEN CATEGORY_LABELS[category]
    ELSE TitleCase(category)

\* Collation weights of String.localeCompare (root collation): white space sorts
\* before punctuation, punctuation before letters, letters alphabetically whatever
\* their case; case decides only between strings that are otherwise equal, lower
\* case first.
PrimaryWeight(ch) ==
    IF ch = " " THEN 1
    ELSE IF ch = "_" THEN 2
    ELSE IF IsLower(ch) THEN 2 + IndexIn(ch, LowerCase)
    ELSE 2 + IndexIn(ch, UpperCase)

CaseWeight(ch) == IF IsUpper(ch) THEN 1 ELSE 0

\* lexicographic comparison of two sequences of weights: -1, 0 or 1
RECURSIVE CompareWeights(_, _)
CompareWeights(x, y) ==
    IF x = <<>> /\ y = <<>> THEN 0
    ELSE IF x = <<>> THEN -1
    ELSE IF y = <<>> THEN 1
    ELSE IF Head(x) < Head(y) THEN -1
    ELSE IF Head(x) > Head(y) THEN 1
    ELSE CompareWeights(Tail(x), Tail(y))

\* labelA.localeCompare(labelB)
LocaleCompare(a, b) ==
    LET primary == CompareWeights([i \in 1..Len(a) |-> PrimaryWeight(a[i])],
                                  [i \in 1..Len(b) |-> PrimaryWeight(b[i])])
    IN  IF primary # 0 THEN primary
        ELSE CompareWeights([i \in 1..Len(a) |-> CaseWeight(a[i])],
                            [i \in 1..Len(b) |-> CaseWeight(b[i])])

\* the (0-based) indexes of the records of one category, in manifest order
RECURSIVE IndexesOf(_, _, _)
IndexesOf(images, category, i) ==
    IF i > Len(images) THEN <<>>
    ELSE (IF CategoryOf(images[i]) = category THEN <<i - 1>> ELSE <<>>)
         \o IndexesOf(images, category, i + 1)

\* Object.keys(imagesByCategory): the categories in the order of their first record
RECURSIVE CategoryKeys(_, _)
CategoryKeys(images, i) ==
    IF i > Len(images) THEN <<>>
    ELSE LET c == CategoryOf(images[i])
         IN  (IF \E j \in 1..(i - 1) : CategoryOf(images[j]) = c THEN <<>> ELSE <<c>>)
             \o CategoryKeys(images, i + 1)

\* one key put into its place in a sorted sequence, after the keys it does not precede
RECURSIVE InsertByLabel(_, _)
InsertByLabel(sorted, key) ==
    IF sorted = <<>> THEN <<key>>
    ELSE IF LocaleCompare(SortLabel(key), SortLabel(Head(sorted))) < 0
         THEN <<key>> \o sorted
         ELSE <<Head(sorted)>> \o InsertByLabel(Tail(sorted), key)

\* Array.prototype.sort with the comparator of the labels (the sort is stable)
RECURSIVE SortByLabel(_)
SortByLabel(keys) ==
    IF keys = <<>> THEN <<>>
    ELSE InsertByLabel(SortByLabel(SubSeq(keys, 1, Len(keys) - 1)), keys[Len(keys)])

SortedCategories(images) == SortByLabel(CategoryKeys(images, 1))

\* imagesByCategory[category]: the records of one category, in manifest order
RECURSIVE GroupOf(_, _, _)
GroupOf(images, category, i) ==
    IF i > Len(images) THEN <<>>
    ELSE (IF CategoryOf(images[i]) = category THEN <<images[i]>> ELSE <<>>)
         \o GroupOf(images, category, i + 1)

\* item nodes numbered by their place in the rendered view
ItemsOfInViewOrder(images, cats) == [k \in 1..Len(images) |-> k - 1]

\* the data-index of every item node renderGallery appends, in DOM order
RECURSIVE ItemsOf(_, _)
ItemsOf(images, cats) ==
    IF cats = <<>> THEN <<>>
    ELSE IndexesOf(images, Head(cats), 1) \o ItemsOf(images, Tail(cats))

\* The grouping loop throws a TypeError at a null record (image.category) and at a
\* record whose category names an inherited property (imagesByCategory[category] is
\* truthy and has no push).
GroupingThrows(images) ==
    \E i \in 1..Len(images) :
        IsNull(images[i]) \/ CategoryOf(images[i]) \in InheritedKeys

\* the section renderGallery appends for a category: its title, its count and the
\* originalIndex of each record of its group, in the order of the group
Section(images, category) ==
    [category |-> category, label |-> DisplayLabel(category),
     count |-> Len(GroupOf(images, category, 1)),
     indexes |-> IndexesOf(images, category, 1),
     srcs |-> [k \in 1..Len(GroupOf(images, category, 1)) |->
                  GroupOf(images, category, 1)[k].path]]

SectionsOf(images, cats) == [i \in 1..Len(cats) |-> Section(images, cats[i])]

\* this.elements of GalleryManager holds the container only; any other field is
\* undefined
ElementsField(name) == IF name = "container" THEN "galleryContainer" ELSE "undefined"

\* the element init()'s catch block hands to showError
ErrorTarget == ElementsField("grid")

\* initGallery: new GalleryManager() and gallery.init(), which starts loadData's fetch
PageLoad ==
    /\ initPc = "idle"
    /\ initPc' = "fetching"
    /\ allImages' = <<>>
    /\ manifestFetches' = manifestFetches + 1
    /\ UNCHANGED <<loadError, container, items, sections, currentIndex, isOpen, overlayActive,
                   bodyOverflow, shown, focusTimers, closeFocused, trail>>
    /\ UNCHANGED <<swVars, loaderVars, menuVars, errorVars>>

\* init()'s catch block: showError(this.elements.grid, ...) assigns innerHTML of its
\* argument, which throws when the argument is undefined, and init() rejects;
\* showing is what the container holds when the catch block runs
InitCatch(error, showing) ==
    /\ loadError' = error
    /\ IF ErrorTarget = "undefined"
       THEN /\ initPc' = "rejected"
            /\ container' = showing
       ELSE /\ initPc' = "failed"
            /\ container' = "error"
    /\ UNCHANGED <<items, sections>>

\* the first index that gets no timer, and the step of the timers' delays
ImmediateCount == 12
StaggerMs == 30

\* index < 12
UsesTimer(index) == index < ImmediateCount

\* a loader that also registers the first nodes with the watcher
ObserveEveryNode(n) ==
    /\ observed' = n
    /\ revealTimers' = [i \in { j \in 0..(n - 1) : UsesTimer(j) } |-> i * StaggerMs]
    /\ watched' = 0..(n - 1)
    /\ reveals' = [i \in 0..(n - 1) |-> 0]

\* ImageLoader.observe(items) for a list of n nodes: a timer of index * 30 ms for each
\* of the first 12, the others are registered with the IntersectionObserver
Observe(n) ==
    /\ observed' = n
    /\ revealTimers' = [i \in { j \in 0..(n - 1) : UsesTimer(j) } |-> i * StaggerMs]
    /\ watched' = { j \in 0..(n - 1) : ~ UsesTimer(j) }
    /\ reveals' = [i \in 0..(n - 1) |-> 0]

\* container.querySelectorAll('.gallery-item'): every item node and, inside it, the
\* element of the same class that createGalleryItem's markup holds
NodeCount(itemNodes) == 2 * Len(itemNodes)

\* renderGallery() for a list it can group: the sections, the item nodes and the
\* call of imageLoader.observe
RenderGallery(images) ==
    IF Len(images) = 0
    THEN /\ container' = "noImages"
         /\ items' = <<>>
         /\ sections' = <<>>
         /\ UNCHANGED loaderVars
    ELSE /\ container' = "rendered"
         /\ items' = ItemsOf(images, SortedCategories(images))
         /\ sections' = SectionsOf(images, SortedCategories(images))
         /\ Observe(NodeCount(items'))

\* the TypeError that leaves renderGallery
RenderError == [message |-> "TypeError", status |-> 0]

\* the TypeError of a rejected fetch
NetworkError == [message |-> "Failed to fetch", status |-> 0]

\* an error that does not tell which status the response had
StatusErrorGeneric(status) == [message |-> "HTTP error!", status |-> 0]

\* new Error(`HTTP error! status: ${response.status}`)
StatusError(status) == [message |-> "HTTP error! status: ", status |-> status]

\* the SyntaxError of response.json()
ParseError == [message |-> "Unexpected token", status |-> 0]

\* new Error('No images found in data')
EmptyDataError == [message |-> "No images found in data", status |-> 0]

\* Response.ok
ResponseOk(status) == status \in 200..299

\* the statuses the manifest's response can have
ManifestStatuses == {200, 404, 500}

\* fetch(CONFIG.dataUrl) rejects: loadData's catch logs and rethrows to init()
ManifestFetchFailed ==
    /\ initPc = "fetching"
    /\ InitCatch(NetworkError, container)
    /\ UNCHANGED manifestFetches
    /\ UNCHANGED <<allImages, currentIndex, isOpen, overlayActive, bodyOverflow, shown,
                   focusTimers, closeFocused, trail>>
    /\ UNCHANGED <<swVars, loaderVars, menuVars, errorVars>>

\* fetch(CONFIG.dataUrl) resolves with a response: a response that is not ok makes
\* loadData throw, and its catch logs and rethrows to init()
ManifestResponded(status) ==
    /\ initPc = "fetching"
    /\ IF ResponseOk(status)
       THEN /\ initPc' = "parsing"
            /\ UNCHANGED <<loadError, container, items, sections>>
       ELSE InitCatch(StatusError(status), container)
    /\ UNCHANGED manifestFetches
    /\ UNCHANGED <<allImages, currentIndex, isOpen, overlayActive, bodyOverflow, shown,
                   focusTimers, closeFocused, trail>>
    /\ UNCHANGED <<swVars, loaderVars, menuVars, errorVars>>

\* response.json() rejects
ManifestUnparsable ==
    /\ initPc = "parsing"
    /\ InitCatch(ParseError, container)
    /\ UNCHANGED manifestFetches
    /\ UNCHANGED <<allImages, currentIndex, isOpen, overlayActive, bodyOverflow, shown,
                   focusTimers, closeFocused, trail>>
    /\ UNCHANGED <<swVars, loaderVars, menuVars, errorVars>>

\* response.json() resolves: the rest of loadData and of init run in the same turn.
\* renderGallery empties the container before it groups the records, so a grouping
\* that throws leaves the container blank when init()'s catch block runs.
ManifestParsed(images) ==
    /\ initPc = "parsing"
    /\ allImages' = images
    /\ IF Len(images) = 0
       THEN /\ InitCatch(EmptyDataError, container)
            /\ UNCHANGED loaderVars
       ELSE IF GroupingThrows(images)
       THEN /\ InitCatch(RenderError, "blank")
            /\ UNCHANGED loaderVars
       ELSE /\ RenderGallery(images)
            /\ initPc' = "rendered"
            /\ UNCHANGED loadError
    /\ trail' = NoTrail
    /\ UNCHANGED <<manifestFetches, currentIndex, isOpen, overlayActive, bodyOverflow,
                   shown, focusTimers, closeFocused>>
    /\ UNCHANGED <<swVars, menuVars, errorVars>>

(***************************************************************************)
(* Gallery: the lightbox controller (gallery.js 160-277).                  *)
(***************************************************************************)
\* the value of an arithmetic expression that has no numeric value
NaN == -999

\* JavaScript's a % n: NaN when an operand is NaN or n is 0, else the remainder with
\* the sign of a
JsRem(a, n) ==
    IF a = NaN \/ n = 0 THEN NaN
    ELSE IF a >= 0 THEN a % n
    ELSE 0 - ((0 - a) % n)

JsAdd(a, b) == IF a = NaN \/ b = NaN THEN NaN ELSE a + b

\* a next() that stops at the last image
NextIndexClamped(index, n) == IF JsAdd(index, 1) >= n THEN index ELSE JsAdd(index, 1)

\* next(): (currentIndex + 1) % images.length
NextIndex(index, n) == JsRem(JsAdd(index, 1), n)

\* a previous() without the wraparound
PreviousIndexNoWrap(index, n) == JsAdd(index, -1)

\* previous(): (currentIndex - 1 + images.length) % images.length
PreviousIndex(index, n) == JsRem(JsAdd(JsAdd(index, -1), n), n)

\* update(): the record the image element shows afterwards; nothing changes when the
\* list is empty or images[currentIndex] is undefined
Update(images, index, showing) ==
    IF Len(images) = 0 THEN showing
    ELSE IF index = NaN \/ index < 0 \/ index >= Len(images) THEN showing
    ELSE IF IsNull(images[index + 1]) THEN showing
    ELSE images[index + 1].path

\* the trail after one more next() or previous(): the run of equal operations, its
\* length up to the length of the list, and the index it started from
Extend(op) ==
    IF trail.op = op /\ trail.count < Len(allImages)
    THEN [trail EXCEPT !.count = @ + 1]
    ELSE [op |-> op, count |-> 1, start |-> currentIndex, afterOpen |-> FALSE]

\* an open() that does not mark the overlay
OpenWithoutMarker(index) ==
    /\ focusTimers < MaxTimers
    /\ currentIndex' = index
    /\ shown' = Update(allImages, index, shown)
    /\ bodyOverflow' = "hidden"
    /\ isOpen' = TRUE
    /\ focusTimers' = focusTimers + 1
    /\ trail' = [NoTrail EXCEPT !.op = "open"]
    /\ UNCHANGED <<overlayActive, closeFocused>>

\* open(index)
Open(index) ==
    /\ focusTimers < MaxTimers
    /\ currentIndex' = index
    /\ shown' = Update(allImages, index, shown)
    /\ overlayActive' = TRUE
    /\ bodyOverflow' = "hidden"
    /\ isOpen' = TRUE
    /\ focusTimers' = focusTimers + 1
    /\ trail' = [NoTrail EXCEPT !.op = "open"]
    /\ UNCHANGED closeFocused

\* a close() that leaves the scroll lock
CloseKeepsScrollLock ==
    /\ overlayActive' = FALSE
    /\ isOpen' = FALSE
    /\ trail' = [NoTrail EXCEPT !.op = "close", !.afterOpen = (trail.op = "open")]
    /\ UNCHANGED <<bodyOverflow, currentIndex, shown, focusTimers, closeFocused>>

\* close()
Close ==
    /\ overlayActive' = FALSE
    /\ bodyOverflow' = ""
    /\ isOpen' = FALSE
    /\ trail' = [NoTrail EXCEPT !.op = "close", !.afterOpen = (trail.op = "open")]
    /\ UNCHANGED <<currentIndex, shown, focusTimers, closeFocused>>

\* next()
Next ==
    /\ currentIndex' = NextIndex(currentIndex, Len(allImages))
    /\ shown' = Update(allImages, currentIndex', shown)
    /\ trail' = Extend("next")
    /\ UNCHANGED <<isOpen, overlayActive, bodyOverflow, focusTimers, closeFocused>>

\* previous()
Previous ==
    /\ currentIndex' = PreviousIndex(currentIndex, Len(allImages))
    /\ shown' = Update(allImages, currentIndex', shown)
    /\ trail' = Extend("previous")
    /\ UNCHANGED <<isOpen, overlayActive, bodyOverflow, focusTimers, closeFocused>>

\* click, Enter or Space on the k-th item node: open(index) with its data-index
ItemActivated(k) ==
    /\ k \in 1..Len(items)
    /\ Open(items[k])
    /\ UNCHANGED <<allImages, manifestFetches, initPc, loadError, container, items, sections>>
    /\ UNCHANGED <<swVars, loaderVars, menuVars, errorVars>>

\* click on the close control
CloseClicked ==
    /\ initPc # "idle"
    /\ Close
    /\ UNCHANGED <<allImages, manifestFetches, initPc, loadError, container, items, sections>>
    /\ UNCHANGED <<swVars, loaderVars, menuVars, errorVars>>

\* click on the overlay itself, outside the content
BackdropClicked ==
    /\ initPc # "idle"
    /\ overlayActive
    /\ Close
    /\ UNCHANGED <<allImages, manifestFetches, initPc, loadError, container, items, sections>>
    /\ UNCHANGED <<swVars, loaderVars, menuVars, errorVars>>

\* click on the next control
NextClicked ==
    /\ initPc # "idle"
    /\ Next
    /\ UNCHANGED <<allImages, manifestFetches, initPc, loadError, container, items, sections>>
    /\ UNCHANGED <<swVars, loaderVars, menuVars, errorVars>>

\* click on the previous control
PreviousClicked ==
    /\ initPc # "idle"
    /\ Previous
    /\ UNCHANGED <<allImages, manifestFetches, initPc, loadError, container, items, sections>>
    /\ UNCHANGED <<swVars, loaderVars, menuVars, errorVars>>

Keys == {"Escape", "ArrowRight", "ArrowLeft", "Tab"}

\* a listener that acts whatever the state of the lightbox
ListeningAlways(open) == TRUE

\* the negation of the listener's early return: if (!this.isOpen) return
Listening(open) == open

\* the lightbox's keydown listener
OnKeyDown(key) ==
    IF ~ Listening(isOpen)
    THEN UNCHANGED <<currentIndex, isOpen, overlayActive, bodyOverflow, shown,
                     focusTimers, closeFocused, trail>>
    ELSE CASE key = "Escape" -> Close
           [] key = "ArrowRight" -> Next
           [] key = "ArrowLeft" -> Previous
           [] OTHER -> UNCHANGED <<currentIndex, isOpen, overlayActive, bodyOverflow,
                                   shown, focusTimers, closeFocused, trail>>

\* a key pressed on a page whose only keydown listener is the lightbox's
KeyDown(key) ==
    /\ initPc # "idle"
    /\ OnKeyDown(key)
    /\ UNCHANGED <<allImages, manifestFetches, initPc, loadError, container, items, sections>>
    /\ UNCHANGED <<swVars, loaderVars, menuVars, errorVars>>

\* the timer open() set fires: this.elements.close.focus()
FocusTimerFired ==
    /\ focusTimers > 0
    /\ focusTimers' = focusTimers - 1
    /\ closeFocused' = TRUE
    /\ UNCHANGED <<allImages, manifestFetches, initPc, loadError, container, items, sections, currentIndex, isOpen,
                   overlayActive, bodyOverflow, shown, trail>>
    /\ UNCHANGED <<swVars, loaderVars, menuVars, errorVars>>

GalleryInit ==
    /\ PageAtRest
    /\ WorkerAtRest
    /\ cacheKeys = <<>>
    /\ cacheData = [n \in AllCacheNames |-> EmptyCache]

GalleryNext ==
    \/ PageLoad
    \/ ManifestFetchFailed
    \/ \E status \in ManifestStatuses : ManifestResponded(status)
    \/ ManifestUnparsable
    \/ \E images \in Manifests : ManifestParsed(images)
    \/ \E k \in 1..MaxImages : ItemActivated(k)
    \/ CloseClicked
    \/ BackdropClicked
    \/ NextClicked
    \/ PreviousClicked
    \/ \E key \in Keys : KeyDown(key)
    \/ FocusTimerFired

GallerySpec == GalleryInit /\ [][GalleryNext]_vars

(***************************************************************************)
(* Gallery: the image loader on its own (gallery.js 97-149), for a list of *)
(* nodes long enough to reach the IntersectionObserver.                    *)
(***************************************************************************)
\* imageLoader.observe(galleryItems) for a rendered page of n nodes
ObserveCalled(n) ==
    /\ observed = -1
    /\ Observe(n)
    /\ UNCHANGED <<swVars, galleryVars, menuVars, errorVars>>

\* the pending timers run in the order of their delays
DueFirst(i) ==
    /\ i \in DOMAIN revealTimers
    /\ \A j \in DOMAIN revealTimers : revealTimers[i] <= revealTimers[j]

\* a reveal timer fires: item.classList.add('loaded')
RevealTimerFired(i) ==
    /\ DueFirst(i)
    /\ revealTimers' = [j \in DOMAIN revealTimers \ {i} |-> revealTimers[j]]
    /\ reveals' = [reveals EXCEPT ![i] = @ + 1]
    /\ UNCHANGED <<observed, watched>>
    /\ UNCHANGED <<swVars, galleryVars, menuVars, errorVars>>

\* a callback that reveals the node and goes on watching it
OnIntersectKeepsWatching(i, isIntersecting) ==
    IF isIntersecting
    THEN /\ reveals' = [reveals EXCEPT ![i] = @ + 1]
         /\ UNCHANGED watched
    ELSE UNCHANGED <<reveals, watched>>

\* the observer's callback for one entry: if (entry.isIntersecting) { add 'loaded';
\* unobserve(entry.target) }
OnIntersect(i, isIntersecting) ==
    IF isIntersecting
    THEN /\ reveals' = [reveals EXCEPT ![i] = @ + 1]
         /\ watched' = watched \ {i}
    ELSE UNCHANGED <<reveals, watched>>

\* the IntersectionObserver reports an entry for a node it watches
IntersectionReported(i, isIntersecting) ==
    /\ i \in watched
    /\ OnIntersect(i, isIntersecting)
    /\ UNCHANGED <<observed, revealTimers>>
    /\ UNCHANGED <<swVars, galleryVars, menuVars, errorVars>>

LoaderInit ==
    /\ PageAtRest
    /\ WorkerAtRest
    /\ cacheKeys = <<>>
    /\ cacheData = [n \in AllCacheNames |-> EmptyCache]

LoaderNext ==
    \/ \E n \in 0..MaxNodes : ObserveCalled(n)
    \/ \E i \in 0..(MaxNodes - 1) : RevealTimerFired(i)
    \/ \E i \in 0..(MaxNodes - 1), isIntersecting \in BOOLEAN :
          IntersectionReported(i, isIntersecting)

LoaderSpec == LoaderInit /\ [][LoaderNext]_vars

(***************************************************************************)
(* The mobile menu (common.js 142-229) on the gallery page.  The menu and  *)
(* the lightbox write the same document.body.style.overflow.               *)
(***************************************************************************)
\* what a menu handler leaves alone in the gallery
galleryButScroll == <<allImages, manifestFetches, initPc, loadError, container, items, sections,
                      currentIndex, isOpen, overlayActive, shown, focusTimers, trail>>

\* openMobileMenu()
OpenMobileMenu ==
    /\ menuActive' = TRUE
    /\ bodyOverflow' = "hidden"
    /\ UNCHANGED closeFocused

\* closeMobileMenu(): it also moves the focus to the menu button
CloseMobileMenu ==
    /\ menuActive' = FALSE
    /\ bodyOverflow' = ""
    /\ closeFocused' = FALSE

\* click on #mobileMenuBtn
MenuToggled ==
    /\ IF menuActive THEN CloseMobileMenu ELSE OpenMobileMenu
    /\ UNCHANGED <<menuTimers, galleryButScroll>>
    /\ UNCHANGED <<swVars, loaderVars, errorVars>>

\* click on #mobileMenuClose
MenuCloseClicked ==
    /\ CloseMobileMenu
    /\ UNCHANGED <<menuTimers, galleryButScroll>>
    /\ UNCHANGED <<swVars, loaderVars, errorVars>>

\* click on #mobileMenuOverlay, which is there to click while the menu is active
MenuOverlayClicked ==
    /\ menuActive
    /\ CloseMobileMenu
    /\ UNCHANGED <<menuTimers, galleryButScroll>>
    /\ UNCHANGED <<swVars, loaderVars, errorVars>>

\* click on a .mobile-menu-link of the active menu: setTimeout(closeMobileMenu, 200)
MenuLinkClicked ==
    /\ menuActive
    /\ menuTimers < MaxTimers
    /\ menuTimers' = menuTimers + 1
    /\ UNCHANGED <<menuActive, bodyOverflow, closeFocused, galleryButScroll>>
    /\ UNCHANGED <<swVars, loaderVars, errorVars>>

\* the delayed closeMobileMenu runs
MenuTimerFired ==
    /\ menuTimers > 0
    /\ menuTimers' = menuTimers - 1
    /\ CloseMobileMenu
    /\ UNCHANGED galleryButScroll
    /\ UNCHANGED <<swVars, loaderVars, errorVars>>

\* a key pressed on the page: the document's keydown listeners of the lightbox and of
\* the menu both run; the menu's closes the menu on Escape when it is active
PageKeyDown(key) ==
    /\ IF key = "Escape" /\ menuActive
       THEN /\ CloseMobileMenu
            /\ IF Listening(isOpen)
               THEN /\ overlayActive' = FALSE
                    /\ isOpen' = FALSE
                    /\ trail' = [NoTrail EXCEPT !.op = "close",
                                                !.afterOpen = (trail.op = "open")]
               ELSE UNCHANGED <<overlayActive, isOpen, trail>>
            /\ UNCHANGED <<currentIndex, shown, focusTimers>>
       ELSE /\ OnKeyDown(key)
            /\ UNCHANGED menuActive
    /\ UNCHANGED <<allImages, manifestFetches, initPc, loadError, container, items, sections>>
    /\ UNCHANGED menuTimers
    /\ UNCHANGED <<swVars, loaderVars, errorVars>>

PageInit ==
    /\ PageAtRest
    /\ WorkerAtRest
    /\ cacheKeys = <<>>
    /\ cacheData = [n \in AllCacheNames |-> EmptyCache]

PageNext ==
    \/ PageLoad
    \/ ManifestFetchFailed
    \/ \E status \in ManifestStatuses : ManifestResponded(status)
    \/ ManifestUnparsable
    \/ \E images \in Manifests : ManifestParsed(images)
    \/ \E k \in 1..MaxImages : ItemActivated(k)
    \/ CloseClicked
    \/ BackdropClicked
    \/ NextClicked
    \/ PreviousClicked
    \/ \E key \in Keys : PageKeyDown(key)
    \/ FocusTimerFired
    \/ MenuToggled
    \/ MenuCloseClicked
    \/ MenuOverlayClicked
    \/ MenuLinkClicked
    \/ MenuTimerFired

PageSpec == PageInit /\ [][PageNext]_vars

(***************************************************************************)
(* The error handler (error-handler.js 42-418).  A log entry is named by   *)
(* its serial number among the entries written since the last clear.       *)
(***************************************************************************)
\* this.maxErrors
maxErrors == 10
\* the longest history log() keeps
HistoryCap == 50

\* a handler that never suppresses
SuppressedNever(count) == FALSE

\* handleError's test after this.errorCount++: this.errorCount > this.maxErrors
Suppressed(count) == count > maxErrors

\* log(level, message, context): CONFIG.enableConsoleLogging is true, so the entry is
\* written to the console, pushed to the history, and the oldest entry is shifted out
\* when the history is longer than 50
Log ==
    /\ logSerial' = logSerial + 1
    /\ errorHistory' = LET pushed == Append(errorHistory, logSerial + 1)
                       IN  IF Len(pushed) > HistoryCap THEN Tail(pushed) ELSE pushed

\* handleError(errorInfo), errorInfo.showUser given or defaulted to true;
\* CONFIG.enableUserNotifications is true
HandleError(showUser) ==
    /\ Len(handled) < MaxHandled
    /\ Suppressed(errorCount + 1) \/ logSerial < MaxLogs
    /\ errorCount' = errorCount + 1
    /\ IF Suppressed(errorCount')
       THEN /\ warned' = IF errorCount' = maxErrors + 1 THEN warned + 1 ELSE warned
            /\ handled' = Append(handled, [logged |-> FALSE, notified |-> FALSE])
            /\ UNCHANGED <<errorHistory, logSerial>>
       ELSE /\ Log
            /\ handled' = Append(handled, [logged |-> TRUE, notified |-> showUser])
            /\ UNCHANGED warned
    /\ UNCHANGED <<swVars, galleryVars, loaderVars, menuVars>>

\* window.logDebug / logInfo / logWarn / logError, and the 'Error handler initialized'
\* entry
LogCalled ==
    /\ logSerial < MaxLogs
    /\ Log
    /\ UNCHANGED <<errorCount, handled, warned>>
    /\ UNCHANGED <<swVars, galleryVars, loaderVars, menuVars>>

\* clearErrorHistory()
ClearErrorHistory ==
    /\ errorHistory' = << >>
    /\ errorCount' = 0
    /\ logSerial' = 0
    /\ handled' = << >>
    /\ warned' = 0
    /\ UNCHANGED <<swVars, galleryVars, loaderVars, menuVars>>

ErrorInit ==
    /\ PageAtRest
    /\ WorkerAtRest
    /\ cacheKeys = <<>>
    /\ cacheData = [n \in AllCacheNames |-> EmptyCache]

ErrorNext ==
    \/ \E showUser \in BOOLEAN : HandleError(showUser)
    \/ LogCalled
    \/ ClearErrorHistory

ErrorSpec == ErrorInit /\ [][ErrorNext]_vars

(***************************************************************************)
(* The worker next to a page that loads its manifest: the two places of    *)
(* the core that go to the network (sw.js 74, gallery.js 303).             *)
(***************************************************************************)
\* the manifests of at most one record
ShortManifests == { images \in Manifests : Len(images) <= 1 }

\* a returning visit: the worker an earlier visit installed is active and controls
\* the page, and the precache holds what that install stored
CoreInit ==
    /\ PageAtRest
    /\ swState = "activated"
    /\ installPc = "settled"
    /\ activatePc = "settled"
    /\ claimPc = "claimed"
    /\ pendingDeletes = {}
    /\ keysAtActivate = {}
    /\ swLog = {}
    /\ handlers = [s \in Slots |-> Idle]
    /\ cacheKeys = <<CACHE_NAME>>
    /\ cacheData = [n \in AllCacheNames |->
                       IF n = CACHE_NAME THEN PriorContent(n) ELSE EmptyCache]

CoreNext ==
    \/ \E s \in Slots, req \in Requests : FetchEvent(s, req)
    \/ \E s \in Slots : MatchSettled(s)
    \/ \E s \in Slots, resp \in UNION { NetworkResponsesFor(r) : r \in Requests } :
          NetworkResponded(s, resp)
    \/ \E s \in Slots : NetworkFailed(s)
    \/ \E s \in Slots : FallbackSettled(s)
    \/ \E s \in Slots, ok \in BOOLEAN : RuntimeOpened(s, ok)
    \/ \E s \in Slots, ok \in BOOLEAN : PutSettled(s, ok)
    \/ \E s \in Slots : Retire(s)
    \/ PageLoad
    \/ ManifestFetchFailed
    \/ \E status \in ManifestStatuses : ManifestResponded(status)
    \/ ManifestUnparsable
    \/ \E images \in ShortManifests : ManifestParsed(images)

CoreSpec == CoreInit /\ [][CoreNext]_vars

(***************************************************************************)
(* Properties of the service worker, checked under SWSpec.                 *)
(***************************************************************************)
\* the step in which the caches.match of handler s settles
LookupSettles(s) == handlers[s].pc = "matching" /\ handlers'[s].pc # "matching"

\* C1: whenever the cache lookup of an intercepted request settles while a cached
\* response matches the request, the handler responds with exactly that stored
\* response and issues no network request; a handler has issued a network request
\* only if its lookup ended in a miss.
C1_CacheFirst ==
    [][ \A s \in Slots :
          /\ (LookupSettles(s) /\ CachesMatch(handlers[s].req.url) # NoResponse)
                => /\ handlers'[s].pc = "responded"
                   /\ handlers'[s].from = "cache"
                   /\ handlers'[s].result = CachesMatch(handlers[s].req.url)
                   /\ ~ handlers'[s].fetched
          /\ handlers'[s].lookup = "hit" => ~ handlers'[s].fetched
          /\ handlers'[s].fetched => handlers'[s].lookup = "miss"
      ]_vars

C1_Witness ==
    \E s \in Slots :
        /\ handlers[s].pc = "responded"
        /\ handlers[s].from = "cache"
        /\ handlers[s].result.body = 0
        /\ \E t \in Slots : handlers[t].fetched

\* the activate event's work has settled and no fetch event was dispatched yet
ActivationDone == activatePc = "settled" /\ swState = "activating"

\* C2 as stated: once the activate event's work has settled, exactly 'vcs-v1' and
\* 'vcs-runtime-v1' exist.
C2_ExactlyBothRemain ==
    ActivationDone => Range(cacheKeys) = {CACHE_NAME, RUNTIME_CACHE}

\* C2 as amended: once the activate event's work has settled, the caches that exist
\* are exactly those of the names 'vcs-v1' and 'vcs-runtime-v1' that existed when
\* activation started, with their content; every other cache has been deleted.
C2_OnlyCurrentRemain ==
    ActivationDone =>
        /\ Range(cacheKeys) = keysAtActivate \cap {CACHE_NAME, RUNTIME_CACHE}
        /\ \A n \in StaleNames : cacheData[n] = EmptyCache
        /\ RUNTIME_CACHE \in keysAtActivate => cacheData[RUNTIME_CACHE] = PriorContent(RUNTIME_CACHE)

C2_Witness ==
    /\ ActivationDone
    /\ StaleNames \subseteq keysAtActivate
    /\ Range(cacheKeys) = {CACHE_NAME, RUNTIME_CACHE}

\* C3: after the install event has completed, every precache asset is retrievable
\* from the precache generation or a cache failure was logged.
C3_NoSilentLoss ==
    installPc = "settled" =>
        \A u \in PrecacheUrls :
            \/ CACHE_NAME \in Range(cacheKeys) /\ u \in DOMAIN cacheData[CACHE_NAME]
            \/ <<"Service Worker: Cache failed">> \in swLog

C3_Witness ==
    /\ installPc = "settled"
    /\ CACHE_NAME \in Range(cacheKeys)
    /\ \E u \in PrecacheUrls : u \notin DOMAIN cacheData[CACHE_NAME]
    /\ <<"Service Worker: Cache failed">> \in swLog

\* handler h got a status-200 'basic' response from the network after a cache miss
GotCacheable(h) ==
    /\ h.lookup = "miss"
    /\ h.from = "network"
    /\ h.result.status = 200
    /\ h.result.type = "basic"

InRuntimeCache(url) ==
    RUNTIME_CACHE \in Range(cacheKeys) /\ url \in DOMAIN cacheData[RUNTIME_CACHE]

\* C4 as stated, for a handler whose work has ended: the network response was
\* returned and the request is in the runtime cache.
C4_StoredWhenHandled ==
    \A s \in Slots :
        (GotCacheable(handlers[s]) /\ Finished(handlers[s]))
            => handlers[s].pc = "responded" /\ InRuntimeCache(handlers[s].req.url)

\* C4 as amended: the status-200 'basic' network response is returned to the caller
\* and a detached store of it is started; when that store has completed, the request
\* is in the runtime cache with that response; the store may instead fail, at the
\* open or at the put, which leaves the request unstored by this handler.
C4_StoredWhenPutCompletes ==
    \A s \in Slots :
        GotCacheable(handlers[s]) =>
            /\ handlers[s].pc = "responded"
            /\ handlers[s].result \in NetworkResponses(handlers[s].req.url)
            /\ handlers[s].putPc \in {"opening", "putting", "done", "failed"}
            /\ handlers[s].toCache = handlers[s].result
            /\ handlers[s].putPc = "done" =>
                  /\ InRuntimeCache(handlers[s].req.url)
                  /\ cacheData[RUNTIME_CACHE][handlers[s].req.url] = handlers[s].result

C4_Witness ==
    \E s \in Slots :
        /\ GotCacheable(handlers[s])
        /\ handlers[s].req.url = ImageUrl
        /\ handlers[s].putPc = "done"
        /\ InRuntimeCache(ImageUrl)

\* handler h is for a navigation that missed the cache and whose network fetch failed
NavigationOffline(h) ==
    /\ h.req.mode = "navigate"
    /\ h.lookup = "miss"
    /\ h.netFailed

\* C5 as stated: a navigation that missed the cache and whose fetch failed is answered
\* with the cached root document and never fails.
C5_AlwaysFallsBack ==
    \A s \in Slots :
        (NavigationOffline(handlers[s]) /\ Finished(handlers[s]))
            => handlers[s].pc = "responded" /\ handlers[s].from = "fallback"

\* C5 as amended: such a navigation is answered with what caches.match('/index.html')
\* finds: the cached root document when one is stored; when none is stored the caller
\* sees a failed fetch.
C5_FallsBackWhenStored ==
    \A s \in Slots :
        NavigationOffline(handlers[s]) =>
            /\ handlers[s].pc \in {"fallback", "responded", "neterror"}
            /\ handlers[s].pc = "responded" =>
                  /\ handlers[s].from = "fallback"
                  /\ handlers[s].result = CachesMatch(IndexUrl)
                  /\ handlers[s].result # NoResponse
            /\ handlers[s].pc = "neterror" => CachesMatch(IndexUrl) = NoResponse

C5_Witness ==
    \E s \in Slots :
        /\ NavigationOffline(handlers[s])
        /\ handlers[s].req.url = ImageUrl
        /\ handlers[s].pc = "responded"
        /\ handlers[s].result.url = IndexUrl

\* C6: a request is intercepted exactly when its method is GET and the origin of its
\* URL is the worker's origin; any other request passes through without a cache
\* lookup, a network fetch by the worker or a cache write.
C6_InterceptsOnlySameOriginGet ==
    \A s \in Slots :
        handlers[s].pc # "idle" =>
            /\ handlers[s].pc # "passthrough"
                  <=> (handlers[s].req.method = "GET"
                         /\ OriginOf(handlers[s].req.url) = SelfOrigin)
            /\ handlers[s].pc = "passthrough" =>
                  /\ handlers[s].lookup = "none"
                  /\ ~ handlers[s].fetched
                  /\ handlers[s].putPc = "none"

\* C14: the worker begins claiming pages only once the enumeration and deletion of
\* the stale caches has completed, and no page is claimed while a stale cache exists.
C14_ClaimAfterCleanup ==
    claimPc \in {"requested", "claimed"} =>
        /\ activatePc = "settled"
        /\ Range(cacheKeys) \cap StaleNames = {}

\* C15: the promise the install listener hands to waitUntil is never rejected, so
\* the worker is never discarded at install, whatever failed.
C15_InstallNeverRejects ==
    /\ installPc # "rejected"
    /\ swState # "redundant"
    /\ (swState = "installing" /\ installPc = "settled") => ENABLED Installed

C15_Witness ==
    /\ swState = "activating"
    /\ <<"Service Worker: Cache failed">> \in swLog
    /\ \E u \in PrecacheUrls : u \notin DOMAIN cacheData[CACHE_NAME]

\* the step in which cache.addAll settles
AddAllSettles == installPc = "adding" /\ installPc' # "adding"

\* C16 as stated: when the store of some assets of the list fails, the other assets
\* of the list are stored in the precache by this install.
C16_OthersStillStored ==
    [][ AddAllSettles =>
          \A failed \in SUBSET PrecacheUrls, body \in 1..MaxBody :
              (failed # {} /\ AddAllSettled(failed, body)) =>
                  \A u \in PrecacheUrls \ failed :
                      /\ u \in DOMAIN cacheData'[CACHE_NAME]
                      /\ cacheData'[CACHE_NAME][u].body = body ]_vars

\* C16 as amended: the batch is all or nothing: when the store of any asset fails,
\* this install stores none of the list's assets (the precache keeps what it held),
\* the failure is logged and the install promise is still fulfilled.
C16_BatchAllOrNothing ==
    [][ AddAllSettles =>
          \A failed \in SUBSET PrecacheUrls, body \in 1..MaxBody :
              (failed # {} /\ AddAllSettled(failed, body)) =>
                  /\ cacheData' = cacheData
                  /\ cacheKeys' = cacheKeys
                  /\ <<"Service Worker: Cache failed">> \in swLog'
                  /\ installPc' = "settled" ]_vars

C16_Witness ==
    /\ installPc = "settled"
    /\ CACHE_NAME \in Range(cacheKeys)
    /\ cacheData[CACHE_NAME] = EmptyCache
    /\ <<"Service Worker: Cache failed">> \in swLog

\* handler h missed the cache and the network answered it
AnsweredByNetwork(h) == h.lookup = "miss" /\ h.from = "network"

\* the handler started a write of its response to the runtime cache
StoreStarted(h) == h.putPc # "none"

\* C17 as stated: the network response of a miss is always returned, and it is
\* written to the runtime cache only if it is successful, not opaque, not redirected
\* and same-origin.
C17_NeverStoresRedirected ==
    \A s \in Slots :
        AnsweredByNetwork(handlers[s]) =>
            /\ handlers[s].pc = "responded"
            /\ StoreStarted(handlers[s]) =>
                  /\ handlers[s].result.status = 200
                  /\ handlers[s].result.type = "basic"
                  /\ ~ handlers[s].result.redirected
                  /\ OriginOf(handlers[s].req.url) = SelfOrigin

\* C17 as amended: the network response of a miss is always returned, and it is
\* written to the runtime cache exactly when its status is 200 and its type is
\* 'basic' (so it is same-origin and not opaque); whether it was redirected is not
\* looked at.
C17_StoresExactly200Basic ==
    \A s \in Slots :
        AnsweredByNetwork(handlers[s]) =>
            /\ handlers[s].pc = "responded"
            /\ handlers[s].result \in NetworkResponsesFor(handlers[s].req)
            /\ StoreStarted(handlers[s]) <=>
                  (handlers[s].result.status = 200 /\ handlers[s].result.type = "basic")
            /\ StoreStarted(handlers[s]) =>
                  /\ handlers[s].toCache = handlers[s].result
                  /\ OriginOf(handlers[s].req.url) = SelfOrigin

C17_Witness ==
    \E s \in Slots :
        /\ AnsweredByNetwork(handlers[s])
        /\ handlers[s].result.redirected
        /\ handlers[s].putPc = "done"
        /\ cacheData[RUNTIME_CACHE][handlers[s].req.url].redirected

\* C18: while the write to the runtime cache is pending, and when it has failed, the
\* network response has already been delivered to the caller.
C18_ResponseNotHeldByPut ==
    \A s \in Slots :
        handlers[s].putPc \in {"opening", "putting", "failed"} =>
            /\ handlers[s].pc = "responded"
            /\ handlers[s].from = "network"
            /\ handlers[s].result = handlers[s].toCache
            /\ handlers[s].result \in NetworkResponsesFor(handlers[s].req)

C18_Witness ==
    \E s \in Slots :
        /\ handlers[s].putPc = "failed"
        /\ handlers[s].pc = "responded"
        /\ ~ InRuntimeCache(handlers[s].req.url)

\* the step in which the network fetch of handler s fails
FetchFails(s) == handlers[s].pc = "fetching" /\ handlers'[s].netFailed

\* C19: when the network fetch of an intercepted request that is not a navigation
\* fails after a cache miss, the caller sees a failed fetch, no fallback lookup is
\* made and no cache changes.
C19_NoFallbackForSubresource ==
    [][ \A s \in Slots :
          (FetchFails(s) /\ handlers[s].req.mode # "navigate") =>
              /\ handlers'[s].pc = "neterror"
              /\ handlers'[s].result = NoResponse
              /\ handlers'[s].from = "none"
              /\ handlers'[s].putPc = "none"
              /\ cacheData' = cacheData
              /\ cacheKeys' = cacheKeys ]_vars

C19_Witness ==
    \E s \in Slots :
        /\ handlers[s].pc = "neterror"
        /\ handlers[s].req.mode = "no-cors"
        /\ handlers[s].lookup = "miss"
        /\ handlers[s].netFailed

\* the step in which the cache.put of handler s completes
PutCompletes(s) == handlers[s].putPc = "putting" /\ handlers'[s].putPc = "done"

C7_CycleReturns ==
    LET n == Len(allImages)
    IN  (/\ n >= 1
         /\ trail.op \in {"next", "previous"}
         /\ trail.count = n
         /\ trail.start \in 0..(n - 1))
            => currentIndex = trail.start

C7_Witness ==
    /\ Len(allImages) >= 2
    /\ trail.op = "next"
    /\ trail.count = Len(allImages)
    /\ trail.start >= 1
    /\ currentIndex = trail.start

\* C8: open(i) followed at once by close() leaves the lightbox closed, the overlay
\* without its 'active' class and the body's scroll lock released.
C8_OpenCloseRestores ==
    (trail.op = "close" /\ trail.afterOpen)
        => /\ ~ isOpen
           /\ ~ overlayActive
           /\ bodyOverflow = ""

C8_Witness ==
    /\ trail.op = "close"
    /\ trail.afterOpen
    /\ Len(allImages) >= 2
    /\ currentIndex >= 1

\* C9: whenever the lightbox is open, currentIndex is a valid index into the
\* complete image list.
C9_OpenIndexValid ==
    isOpen => currentIndex \in 0..(Len(allImages) - 1)

C9_Witness ==
    /\ isOpen
    /\ Len(allImages) >= 2
    /\ trail.op = "previous"
    /\ trail.start = 0
    /\ trail.count = 1
    /\ currentIndex = Len(allImages) - 1

\* response.json() resolved with an empty image list and init() has ended
EmptyManifestParsed ==
    /\ initPc \notin {"idle", "fetching", "parsing"}
    /\ allImages = <<>>
    /\ loadError \in {NoError, EmptyDataError}

\* C10: when the manifest holds an empty image list, loading fails with the
\* empty-data error, the container shows the "No images found" state and no item
\* node exists.
C10_EmptyManifestShowsNoImages ==
    EmptyManifestParsed
        => /\ loadError = EmptyDataError
           /\ container = "noImages"
           /\ items = <<>>

\* manifest acquisition failed and init() has ended
AcquisitionFailed ==
    /\ initPc \notin {"idle", "fetching", "parsing"}
    /\ loadError \in {NetworkError, EmptyDataError} \cup { StatusError(st) : st \in ManifestStatuses }

\* C11: whenever manifest acquisition fails (fetch rejects, status not ok, empty
\* image list), init() ends without failing and the container's contents are the
\* error message with the reload prompt.
C11_FailureShowsError ==
    AcquisitionFailed => (initPc = "failed" /\ container = "error")

\* the response's status was not ok and loadData has ended
StatusNotOk(status) == ManifestResponded(status) /\ ~ ResponseOk(status)

\* C13: when the manifest's response is not ok, loadData fails with an error that
\* carries the status, init() (its caller) catches that error, and the image list
\* stays empty.
C13_StatusErrorSurfaces ==
    [][ \A status \in ManifestStatuses :
            StatusNotOk(status) =>
                /\ loadError'.status = status
                /\ initPc' \in {"failed", "rejected"}
                /\ allImages' = <<>> /\ allImages = <<>> ]_vars

C13_Witness ==
    /\ loadError.status = 404
    /\ initPc \in {"failed", "rejected"}
    /\ allImages = <<>>

\* the categories of the loaded image list
LoadedCategories == { CategoryOf(allImages[i]) : i \in 1..Len(allImages) }

\* C12: the rendered gallery has one section per distinct category, the sections
\* follow each other in ascending order of the label they show, and each section's
\* count is the number of records of its category.
C12_SectionsSortedByDisplayLabel ==
    container = "rendered" =>
        /\ Len(sections) = Cardinality(LoadedCategories)
        /\ { sections[i].category : i \in 1..Len(sections) } = LoadedCategories
        /\ \A i \in 1..Len(sections) :
              sections[i].count =
                  Cardinality({ j \in 1..Len(allImages) : CategoryOf(allImages[j]) = sections[i].category })
        /\ \A i \in 1..(Len(sections) - 1) :
              LocaleCompare(sections[i].label, sections[i + 1].label) <= 0

\* init() has ended after the manifest was parsed
ManifestRendered == initPc \notin {"idle", "fetching", "parsing"} /\ Len(allImages) > 0

\* the sections whose group holds the record of (0-based) index i
SectionsHolding(i) ==
    { k \in 1..Len(sections) : \E j \in 1..Len(sections[k].indexes) : sections[k].indexes[j] = i }

RECURSIVE SumOfCounts(_)
SumOfCounts(secs) == IF secs = <<>> THEN 0 ELSE Head(secs).count + SumOfCounts(Tail(secs))

\* C21: for a list of records (none of them null), every record is in exactly one
\* group, the group of its category ('other' when unset), the records of a group are
\* in manifest order with their original indexes, and the group sizes sum to the
\* length of the list.
C21_EveryRecordInOneGroup ==
    (ManifestRendered /\ \A i \in 1..Len(allImages) : ~ IsNull(allImages[i])) =>
        /\ \A i \in 1..Len(allImages) :
              /\ Cardinality(SectionsHolding(i - 1)) = 1
              /\ \A k \in SectionsHolding(i - 1) :
                    sections[k].category = CategoryOf(allImages[i])
        /\ \A k \in 1..Len(sections) :
              /\ \A j \in 1..(Len(sections[k].indexes) - 1) :
                    sections[k].indexes[j] < sections[k].indexes[j + 1]
              /\ \A j \in 1..Len(sections[k].indexes) :
                    sections[k].srcs[j] = allImages[sections[k].indexes[j] + 1].path
        /\ SumOfCounts(sections) = Len(allImages)

\* the src of the image of every item node, in DOM order
RECURSIVE ItemSrcs(_)
ItemSrcs(secs) == IF secs = <<>> THEN <<>> ELSE Head(secs).srcs \o ItemSrcs(Tail(secs))

\* C22: activating the k-th item node opens the lightbox at the index of the record
\* the node was built from, and the lightbox shows that record.
C22_ItemOpensItsRecord ==
    [][ \A k \in 1..MaxImages :
          (k <= Len(items) /\ ItemActivated(k)) =>
              /\ isOpen'
              /\ currentIndex' \in 0..(Len(allImages) - 1)
              /\ allImages[currentIndex' + 1].path = ItemSrcs(sections)[k]
              /\ shown' = ItemSrcs(sections)[k] ]_vars

C22_Witness ==
    /\ isOpen
    /\ trail.op = "open"
    /\ \E k \in 1..Len(items) :
          /\ items[k] # k - 1
          /\ currentIndex = items[k]
          /\ shown = ItemSrcs(sections)[k]

\* the manifest held a null record next to records that can be rendered
OneRecordMalformed ==
    /\ ManifestRendered
    /\ \E i \in 1..Len(allImages) : IsNull(allImages[i])
    /\ \E i \in 1..Len(allImages) : ~ IsNull(allImages[i])
    /\ \A i \in 1..Len(allImages) : CategoryOf(allImages[i]) \notin InheritedKeys

\* C23: when a record of the list is malformed, it is skipped and an item node is
\* produced for every other record of the list.
C23_MalformedRecordSkipped ==
    OneRecordMalformed =>
        /\ container = "rendered"
        /\ \A i \in 1..Len(allImages) :
              ~ IsNull(allImages[i]) => \E k \in 1..Len(items) : items[k] = i - 1

\* what the claims call the state of the lightbox, with the image it displays and
\* the scroll lock
lightboxVars == <<currentIndex, isOpen, overlayActive, bodyOverflow, shown>>

C27_OpenMarkerLockAgree ==
    [][ /\ isOpen' <=> overlayActive'
        /\ isOpen' <=> (bodyOverflow' = "hidden")
        /\ (NextClicked \/ PreviousClicked) => UNCHANGED <<isOpen, overlayActive, bodyOverflow>>
        /\ (CloseClicked /\ ~ isOpen) => UNCHANGED lightboxVars ]_vars

C27_Witness ==
    /\ isOpen /\ overlayActive /\ bodyOverflow = "hidden"
    /\ trail.op = "next"
    /\ trail.count = 2

\* C28: the focus move that open() scheduled happens only while the lightbox is open.
C28_FocusOnlyWhileOpen ==
    [][ FocusTimerFired => isOpen ]_vars

(***************************************************************************)
(* Properties of the image loader, checked under LoaderSpec.               *)
(***************************************************************************)
\* C24: after observe(nodes) each of the first 12 nodes has a timer of index x 30 ms
\* until it is revealed and is never watched, each later node has no timer and is
\* watched exactly until its first reveal, and no node is revealed twice
C24_OneMechanismOneReveal ==
    observed >= 0 =>
        \A i \in 0..(observed - 1) :
            /\ reveals[i] <= 1
            /\ i < 12 =>
                  /\ i \notin watched
                  /\ (i \in DOMAIN revealTimers) = (reveals[i] = 0)
                  /\ i \in DOMAIN revealTimers => revealTimers[i] = i * 30
            /\ i >= 12 =>
                  /\ i \notin DOMAIN revealTimers
                  /\ (i \in watched) = (reveals[i] = 0)

\* a timed node and a watched node have both been revealed, another is still watched
C24_Witness ==
    /\ observed = 14
    /\ reveals[0] = 1
    /\ reveals[12] = 1
    /\ 12 \notin watched
    /\ 13 \in watched

(***************************************************************************)
(* Properties of the gallery page with its mobile menu, under PageSpec.    *)
(***************************************************************************)
\* C29: whenever the lightbox is open or the mobile menu is active, the background
\* scroll is locked
C29_ScrollLockedWhileEitherOpen ==
    (isOpen \/ menuActive) => bodyOverflow = "hidden"

(***************************************************************************)
(* Properties of the error handler, checked under ErrorSpec.               *)
(***************************************************************************)
\* the most recent entries, at most 50 of them, oldest first
MostRecent(written) ==
    LET kept == IF written > 50 THEN 50 ELSE written
    IN  [i \in 1..kept |-> written - kept + i]

\* C30: since the last clearErrorHistory, exactly the first 10 handleError calls wrote a
\* log entry and only they could notify, the suppression warning was written once when
\* the 11th call was made and not before, and the history holds the most recent
\* entries, at most 50, in the order they were written
C30_SuppressionAndHistoryCap ==
    /\ errorCount = Len(handled)
    /\ \A k \in 1..Len(handled) :
          /\ handled[k].logged = (k <= 10)
          /\ handled[k].notified => k <= 10
    /\ warned = IF Len(handled) >= 11 THEN 1 ELSE 0
    /\ Len(errorHistory) <= 50
    /\ errorHistory = MostRecent(logSerial)

\* twelve errors were handled, the first with a notification, and the history has
\* dropped its two oldest entries
C30_Witness ==
    /\ Len(handled) = 12
    /\ handled[1].notified
    /\ warned = 1
    /\ logSerial = 52
    /\ Len(errorHistory) = 50
    /\ errorHistory[1] = 3

(***************************************************************************)
(* Properties of the network use of worker and page, under CoreSpec.       *)
(***************************************************************************)
\* C26: a load that has started has fetched the manifest exactly once, whatever came of
\* it, and no fetch handler of the worker has fetched its request more than once
C26_NoRetry ==
    /\ manifestFetches = IF initPc = "idle" THEN 0 ELSE 1
    /\ \A s \in Slots : handlers[s].fetches <= 1

\* the manifest fetch has failed and so has the network fetch of a handler
C26_Witness ==
    /\ initPc = "rejected"
    /\ loadError = NetworkError
    /\ manifestFetches = 1
    /\ \E s \in Slots : handlers[s].netFailed /\ handlers[s].fetches = 1

====
